---- MODULE Spec2Model ----
(***************************************************************************)
(* git-mcp (src/src/index.ts): an MCP server whose CallTool handler maps a *)
(* tool name and an argument bag to one `git ...` command string, runs it  *)
(* through child_process.exec (that is, /bin/sh -c) and relays stdout or   *)
(* the failure.                                                            *)
(*                                                                         *)
(* Text is a sequence of symbols.  A symbol is either one of the shell-    *)
(* significant characters of Chars (space, double quote, semicolon), the   *)
(* ordinary character "a", a digit, or a literal chunk of ordinary         *)
(* characters taken from the source ("commit", "--force", ...), which the  *)
(* shell treats like a run of ordinary characters.                         *)
(***************************************************************************)
EXTENDS Naturals, Sequences, FiniteSets

VARIABLES pc, req, cmdline, cwd, spawns, ran, proc, response, parked, active

vars == <<pc, req, cmdline, cwd, spawns, ran, proc, response, parked, active>>

(* Longest user-supplied string the request generator enumerates in full. *)
MaxLen == 4

SP == " "
DQ == "\""
SEMI == ";"

(* The alphabet user-supplied strings are drawn from. *)
Chars == {"a", SP, DQ, SEMI}

RECURSIVE StringsOfLen(_)
StringsOfLen(n) ==
  IF n = 0 THEN {<<>>}
  ELSE {Append(s, c) : s \in StringsOfLen(n - 1), c \in Chars}

Strings == UNION {StringsOfLen(n) : n \in 0..MaxLen}

(***************************************************************************)
(* JavaScript values of the argument bag (args: any).                      *)
(***************************************************************************)
Undef == [t |-> "undefined", s |-> <<>>, n |-> 0, b |-> FALSE, a |-> <<>>]
Str(x) == [t |-> "string", s |-> x, n |-> 0, b |-> FALSE, a |-> <<>>]
Num(k) == [t |-> "number", s |-> <<>>, n |-> k, b |-> FALSE, a |-> <<>>]
Bool(v) == [t |-> "boolean", s |-> <<>>, n |-> 0, b |-> v, a |-> <<>>]
Arr(xs) == [t |-> "array", s |-> <<>>, n |-> 0, b |-> FALSE, a |-> xs]

(* ToBoolean: what `if (v)` and `v || d` test. *)
Truthy(v) ==
  CASE v.t = "undefined" -> FALSE
    [] v.t = "string" -> v.s # <<>>
    [] v.t = "number" -> v.n # 0
    [] v.t = "boolean" -> v.b
    [] v.t = "array" -> TRUE

Digit(d) ==
  CASE d = 0 -> "0" [] d = 1 -> "1" [] d = 2 -> "2" [] d = 3 -> "3" [] d = 4 -> "4"
    [] d = 5 -> "5" [] d = 6 -> "6" [] d = 7 -> "7" [] d = 8 -> "8" [] d = 9 -> "9"

(* Number.prototype.toString for a non-negative integer. *)
RECURSIVE NumStr(_)
NumStr(k) == IF k < 10 THEN <<Digit(k)>> ELSE NumStr(k \div 10) \o <<Digit(k % 10)>>

(* ToString: what `${v}` interpolates. *)
ToStr(v) ==
  CASE v.t = "undefined" -> <<"undefined">>
    [] v.t = "string" -> v.s
    [] v.t = "number" -> NumStr(v.n)
    [] v.t = "boolean" -> IF v.b THEN <<"true">> ELSE <<"false">>
    [] v.t = "array" -> <<>>

(* `v || d` inside a template. *)
OrElse(v, d) == IF Truthy(v) THEN ToStr(v) ELSE d

(* `if (c) command += piece`. *)
When(c, piece) == IF c THEN piece ELSE <<>>

(* `"${v}"`. *)
Quoted(v) == <<DQ>> \o ToStr(v) \o <<DQ>>

Is(v, lit) == v.t = "string" /\ v.s = <<lit>>

(* files.map(f => `"${f}"`).join(' ') *)
RECURSIVE JoinQuoted(_)
JoinQuoted(xs) ==
  IF xs = <<>> THEN <<>>
  ELSE IF Len(xs) = 1 THEN <<DQ>> \o xs[1] \o <<DQ>>
  ELSE <<DQ>> \o xs[1] \o <<DQ, SP>> \o JoinQuoted(Tail(xs))

(***************************************************************************)
(* The command string each handler composes.                               *)
(***************************************************************************)
cmdInit(args) ==
  <<"init">>
    \o When(Truthy(args.initialBranch),
            <<SP, "--initial-branch=">> \o Quoted(args.initialBranch))
    \o When(Truthy(args.bare), <<SP, "--bare">>)
    \o When(Truthy(args.path), <<SP>> \o Quoted(args.path))

cmdClone(args) ==
  <<"clone", SP>> \o Quoted(args.url)
    \o When(Truthy(args.path), <<SP>> \o Quoted(args.path))
    \o When(Truthy(args.branch), <<SP, "--branch", SP>> \o Quoted(args.branch))
    \o When(Truthy(args.depth), <<SP, "--depth", SP>> \o ToStr(args.depth))
    \o When(Truthy(args.recursive), <<SP, "--recursive">>)

(* cmdStatus, were its flags chained with else, as handleAdd's are *)
cmdStatusChained(args) ==
  <<"status">>
    \o (IF Truthy(args.short) THEN <<SP, "--short">>
        ELSE IF Truthy(args.branch) THEN <<SP, "--branch">>
        ELSE When(Truthy(args.porcelain), <<SP, "--porcelain">>))

cmdStatus(args) ==
  <<"status">>
    \o When(Truthy(args.short), <<SP, "--short">>)
    \o When(Truthy(args.branch), <<SP, "--branch">>)
    \o When(Truthy(args.porcelain), <<SP, "--porcelain">>)

(* cmdAdd, were update tested before all *)
cmdAddUpdateFirst(args) ==
  <<"add">>
    \o (IF Truthy(args.update) THEN <<SP, "--update">>
        ELSE IF Truthy(args.all) THEN <<SP, "--all">>
        ELSE IF Truthy(args.files) /\ Len(args.files.a) > 0
             THEN <<SP>> \o JoinQuoted(args.files.a)
        ELSE <<SP, ".">>)

cmdAdd(args) ==
  <<"add">>
    \o (IF Truthy(args.all) THEN <<SP, "--all">>
        ELSE IF Truthy(args.update) THEN <<SP, "--update">>
        ELSE IF Truthy(args.files) /\ Len(args.files.a) > 0
             THEN <<SP>> \o JoinQuoted(args.files.a)
        ELSE <<SP, ".">>)

cmdCommit(args) ==
  <<"commit">>
    \o <<SP, "-m", SP>> \o Quoted(args.message)
    \o When(Truthy(args.all), <<SP, "--all">>)
    \o When(Truthy(args.amend), <<SP, "--amend">>)
    \o When(Truthy(args.author), <<SP, "--author=">> \o Quoted(args.author))

(* cmdPush, were the remote interpolated without its fallback *)
cmdPushNoDefault(args) ==
  <<"push">>
    \o When(Truthy(args.force), <<SP, "--force">>)
    \o When(Truthy(args.setUpstream), <<SP, "--set-upstream">>)
    \o When(Truthy(args.tags), <<SP, "--tags">>)
    \o <<SP>> \o ToStr(args.remote)
    \o When(Truthy(args.branch), <<SP>> \o ToStr(args.branch))

cmdPush(args) ==
  <<"push">>
    \o When(Truthy(args.force), <<SP, "--force">>)
    \o When(Truthy(args.setUpstream), <<SP, "--set-upstream">>)
    \o When(Truthy(args.tags), <<SP, "--tags">>)
    \o <<SP>> \o OrElse(args.remote, <<"origin">>)
    \o When(Truthy(args.branch), <<SP>> \o ToStr(args.branch))

cmdPull(args) ==
  <<"pull">>
    \o When(Truthy(args.rebase), <<SP, "--rebase">>)
    \o When(args.ff = Bool(FALSE), <<SP, "--no-ff">>)
    \o <<SP>> \o OrElse(args.remote, <<"origin">>)
    \o When(Truthy(args.branch), <<SP>> \o ToStr(args.branch))

cmdBranch(args) ==
  <<"branch">>
    \o (CASE Is(args.action, "create") -> <<SP>> \o Quoted(args.name)
          [] Is(args.action, "delete") -> <<SP, "-d", SP>> \o Quoted(args.name)
          [] Is(args.action, "rename") ->
               <<SP, "-m", SP>> \o Quoted(args.name) \o <<SP>> \o Quoted(args.newName)
          [] OTHER -> When(Truthy(args.all), <<SP, "--all">>)
                        \o When(Truthy(args.remote), <<SP, "--remote">>))

cmdCheckout(args) ==
  <<"checkout">>
    \o When(Truthy(args.create), <<SP, "-b">>)
    \o When(Truthy(args.force), <<SP, "--force">>)
    \o <<SP>> \o Quoted(args.branch)

cmdMerge(args) ==
  <<"merge", SP>> \o Quoted(args.branch)
    \o When(Truthy(args.message), <<SP, "-m", SP>> \o Quoted(args.message))
    \o When(Truthy(args.noFf), <<SP, "--no-ff">>)
    \o When(Truthy(args.squash), <<SP, "--squash">>)

cmdLog(args) ==
  <<"log">>
    \o When(Truthy(args.limit), <<SP, "-">> \o ToStr(args.limit))
    \o When(Truthy(args.oneline), <<SP, "--oneline">>)
    \o When(Truthy(args.graph), <<SP, "--graph">>)
    \o When(Truthy(args.author), <<SP, "--author=">> \o Quoted(args.author))
    \o When(Truthy(args.since), <<SP, "--since=">> \o Quoted(args.since))
    \o When(Truthy(args.until), <<SP, "--until=">> \o Quoted(args.until))

cmdDiff(args) ==
  <<"diff">>
    \o When(Truthy(args.cached), <<SP, "--cached">>)
    \o When(Truthy(args.stat), <<SP, "--stat">>)
    \o When(Truthy(args.nameOnly), <<SP, "--name-only">>)
    \o When(Truthy(args.commit), <<SP>> \o ToStr(args.commit))

(* ` stash@{${args.index}}` *)
StashRef(args) ==
  When(args.index # Undef, <<SP, "stash@{">> \o ToStr(args.index) \o <<"}">>)

cmdStash(args) ==
  <<"stash">>
    \o (CASE Is(args.action, "save") ->
               <<SP, "push">>
                 \o When(Truthy(args.message), <<SP, "-m", SP>> \o Quoted(args.message))
                 \o When(Truthy(args.includeUntracked), <<SP, "--include-untracked">>)
          [] Is(args.action, "pop") -> <<SP, "pop">> \o StashRef(args)
          [] Is(args.action, "apply") -> <<SP, "apply">> \o StashRef(args)
          [] Is(args.action, "drop") -> <<SP, "drop">> \o StashRef(args)
          [] Is(args.action, "clear") -> <<SP, "clear">>
          [] OTHER -> <<SP, "list">>)

cmdRemote(args) ==
  <<"remote">>
    \o (CASE Is(args.action, "add") ->
               <<SP, "add", SP>> \o Quoted(args.name) \o <<SP>> \o Quoted(args.url)
          [] Is(args.action, "remove") -> <<SP, "remove", SP>> \o Quoted(args.name)
          [] Is(args.action, "set-url") ->
               <<SP, "set-url", SP>> \o Quoted(args.name) \o <<SP>> \o Quoted(args.url)
          [] Is(args.action, "show") -> <<SP, "show", SP>> \o OrElse(args.name, <<>>)
          [] OTHER -> When(Truthy(args.verbose), <<SP, "-v">>))

cmdTag(args) ==
  <<"tag">>
    \o (CASE Is(args.action, "create") ->
               (IF Truthy(args.annotated) /\ Truthy(args.message)
                THEN <<SP, "-a", SP>> \o Quoted(args.name)
                       \o <<SP, "-m", SP>> \o Quoted(args.message)
                ELSE <<SP>> \o Quoted(args.name))
                 \o When(Truthy(args.force), <<SP, "-f">>)
          [] Is(args.action, "delete") -> <<SP, "-d", SP>> \o Quoted(args.name)
          [] OTHER -> <<>>)

cmdReset(args) ==
  <<"reset", SP, "--">> \o ToStr(args.mode) \o <<SP>> \o OrElse(args.commit, <<"HEAD">>)

(***************************************************************************)
(* The requests a caller sends: the tool name and, per the tool's          *)
(* inputSchema, a value or nothing for each field.  The plain requests     *)
(* take every combination of a few values per field; the hot requests put  *)
(* every string of Strings into one string field of a base request.        *)
(***************************************************************************)
A == Str(<<"a">>)
PlainStr == {Undef, Str(<<>>), A}
BoolVals == {Undef, Bool(FALSE), Bool(TRUE)}
NumVals == {Undef, Num(0), Num(2), Num(10)}
FileVals == {Undef, Arr(<<>>), Arr(<<<<"a">>>>), Arr(<<<<"a">>, <<"a", "a">>>>)}
Enum(S) == {Undef} \cup {Str(<<x>>) : x \in S}
HotStr == {Str(s) : s \in Strings}
HotFiles == {Arr(<<s>>) : s \in Strings} \cup {Arr(<<<<"a">>, s>>) : s \in Strings}
Off == {Undef}
On == {Bool(TRUE)}

(* base with one of its fields replaced by each hot value *)
Heat(bases, fields, hot) == {[b EXCEPT ![f] = h] : b \in bases, f \in fields, h \in hot}

BranchActions == {"list", "create", "delete", "rename"}
StashActions == {"save", "pop", "list", "apply", "drop", "clear"}
RemoteActions == {"list", "add", "remove", "show", "set-url"}
TagActions == {"list", "create", "delete"}
ResetModes == {"soft", "mixed", "hard"}

InitArgs ==
  [path : PlainStr, initialBranch : PlainStr, bare : BoolVals]
    \cup Heat([path : {A}, initialBranch : {A}, bare : Off]
                \cup [path : {A}, initialBranch : {A}, bare : On],
              {"path", "initialBranch"}, HotStr)

CloneArgs ==
  [url : PlainStr, path : PlainStr, branch : PlainStr, depth : NumVals,
   recursive : BoolVals]
    \cup Heat([url : {A}, path : {A}, branch : {A}, depth : {Undef, Num(2)},
               recursive : Off \cup On],
              {"url", "path", "branch"}, HotStr)

StatusArgs ==
  [path : PlainStr, short : BoolVals, branch : BoolVals, porcelain : BoolVals]

AddArgs ==
  [files : FileVals, path : PlainStr, all : BoolVals, update : BoolVals]
    \cup Heat([files : {Undef}, path : {Undef, A}, all : Off, update : Off],
              {"files"}, HotFiles)

CommitArgs ==
  [message : PlainStr, path : PlainStr, all : BoolVals, amend : BoolVals,
   author : PlainStr]
    \cup Heat([message : {A}, path : {Undef}, all : Off, amend : Off, author : {A}]
                \cup [message : {A}, path : {Undef}, all : On, amend : On, author : {A}],
              {"message", "author"}, HotStr)

PushArgs ==
  [path : PlainStr, remote : PlainStr, branch : PlainStr, force : BoolVals,
   setUpstream : BoolVals, tags : BoolVals]
    \cup Heat([path : {Undef}, remote : {A}, branch : {Undef, A}, force : Off,
               setUpstream : Off, tags : Off]
                \cup [path : {Undef}, remote : {A}, branch : {A}, force : On,
                      setUpstream : On, tags : On],
              {"remote", "branch"}, HotStr)

PullArgs ==
  [path : PlainStr, remote : PlainStr, branch : PlainStr, rebase : BoolVals,
   ff : BoolVals]
    \cup Heat([path : {Undef}, remote : {A}, branch : {Undef, A}, rebase : Off,
               ff : Off]
                \cup [path : {Undef}, remote : {A}, branch : {A}, rebase : On,
                      ff : {Bool(FALSE)}],
              {"remote", "branch"}, HotStr)

BranchArgs ==
  [action : Enum(BranchActions), name : PlainStr, newName : PlainStr,
   path : PlainStr, all : BoolVals, remote : BoolVals]
    \cup Heat([action : Enum(BranchActions), name : {A}, newName : {A},
               path : {Undef}, all : Off, remote : Off]
                \cup [action : Enum(BranchActions), name : {A}, newName : {A},
                      path : {Undef}, all : On, remote : On],
              {"name", "newName"}, HotStr)
    \cup Heat([action : {Undef}, name : {A}, newName : {A}, path : {Undef},
               all : On, remote : Off],
              {"action"}, HotStr)

CheckoutArgs ==
  [branch : PlainStr, path : PlainStr, create : BoolVals, force : BoolVals]
    \cup Heat([branch : {A}, path : {Undef}, create : Off, force : Off]
                \cup [branch : {A}, path : {Undef}, create : On, force : On],
              {"branch"}, HotStr)

MergeArgs ==
  [branch : PlainStr, path : PlainStr, message : PlainStr, noFf : BoolVals,
   squash : BoolVals]
    \cup Heat([branch : {A}, path : {Undef}, message : {A}, noFf : Off, squash : Off]
                \cup [branch : {A}, path : {Undef}, message : {A}, noFf : On,
                      squash : On],
              {"branch", "message"}, HotStr)

LogArgs ==
  [path : PlainStr, limit : NumVals, oneline : BoolVals, graph : BoolVals,
   author : PlainStr, since : PlainStr, until : PlainStr]
    \cup Heat([path : {Undef}, limit : {Undef}, oneline : Off, graph : Off,
               author : {A}, since : {A}, until : {A}]
                \cup [path : {Undef}, limit : {Num(2)}, oneline : On, graph : On,
                      author : {A}, since : {A}, until : {A}],
              {"author", "since", "until"}, HotStr)

DiffArgs ==
  [path : PlainStr, cached : BoolVals, commit : PlainStr, stat : BoolVals,
   nameOnly : BoolVals]
    \cup Heat([path : {Undef}, cached : Off, commit : {A}, stat : Off, nameOnly : Off]
                \cup [path : {Undef}, cached : On, commit : {A}, stat : On,
                      nameOnly : On],
              {"commit"}, HotStr)

StashArgs ==
  [action : Enum(StashActions), message : PlainStr, path : PlainStr,
   index : NumVals, includeUntracked : BoolVals]
    \cup Heat([action : Enum(StashActions), message : {A}, path : {Undef},
               index : {Undef}, includeUntracked : Off \cup On],
              {"message"}, HotStr)
    \cup Heat([action : {Undef}, message : {A}, path : {Undef}, index : {Num(2)},
               includeUntracked : On],
              {"action"}, HotStr)

RemoteArgs ==
  [action : Enum(RemoteActions), name : PlainStr, url : PlainStr, path : PlainStr,
   verbose : BoolVals]
    \cup Heat([action : Enum(RemoteActions), name : {A}, url : {A}, path : {Undef},
               verbose : Off \cup On],
              {"name", "url"}, HotStr)
    \cup Heat([action : {Undef}, name : {A}, url : {A}, path : {Undef}, verbose : On],
              {"action"}, HotStr)

TagArgs ==
  [action : Enum(TagActions), name : PlainStr, message : PlainStr, path : PlainStr,
   annotated : BoolVals, force : BoolVals]
    \cup Heat([action : Enum(TagActions), name : {A}, message : {A}, path : {Undef},
               annotated : Off, force : Off]
                \cup [action : Enum(TagActions), name : {A}, message : {A},
                      path : {Undef}, annotated : On, force : On],
              {"name", "message"}, HotStr)
    \cup Heat([action : {Undef}, name : {A}, message : {A}, path : {Undef},
               annotated : On, force : On],
              {"action"}, HotStr)

ResetArgs ==
  [path : PlainStr, mode : Enum(ResetModes), commit : PlainStr]
    \cup Heat([path : {Undef}, mode : Enum(ResetModes), commit : {A}],
              {"commit"}, HotStr)
    \cup Heat([path : {Undef}, mode : {Undef}, commit : {Undef, A}],
              {"mode"}, HotStr)

ToolNames ==
  {"git_init", "git_clone", "git_status", "git_add", "git_commit", "git_push",
   "git_pull", "git_branch", "git_checkout", "git_merge", "git_log", "git_diff",
   "git_stash", "git_remote", "git_tag", "git_reset"}

(* a name the switch has no case for *)
OtherNames == {"git_rebase"}

ArgsOf(name) ==
  CASE name = "git_init" -> InitArgs
    [] name = "git_clone" -> CloneArgs
    [] name = "git_status" -> StatusArgs
    [] name = "git_add" -> AddArgs
    [] name = "git_commit" -> CommitArgs
    [] name = "git_push" -> PushArgs
    [] name = "git_pull" -> PullArgs
    [] name = "git_branch" -> BranchArgs
    [] name = "git_checkout" -> CheckoutArgs
    [] name = "git_merge" -> MergeArgs
    [] name = "git_log" -> LogArgs
    [] name = "git_diff" -> DiffArgs
    [] name = "git_stash" -> StashArgs
    [] name = "git_remote" -> RemoteArgs
    [] name = "git_tag" -> TagArgs
    [] name = "git_reset" -> ResetArgs
    [] OTHER -> [path : {Undef, A}]

(* request.params.arguments is optional: a request may carry no bag at all *)
NoArgs == [path |-> Undef]

(***************************************************************************)
(* child_process.exec hands the string to /bin/sh -c.  The shell reads the *)
(* whole line before running any of it: an unquoted space ends a word, a   *)
(* double quote opens or closes a quoted stretch (and makes a word, even   *)
(* an empty one), an unquoted semicolon ends a command.  An unterminated   *)
(* quote or an empty command before a semicolon is a syntax error, and     *)
(* then nothing runs.                                                      *)
(***************************************************************************)
RECURSIVE Lex(_, _, _, _, _, _, _)
Lex(line, i, quote, tok, inTok, cmd, cmds) ==
  IF i > Len(line)
  THEN IF quote THEN [ok |-> FALSE, cmds |-> <<>>]
       ELSE LET c2 == IF inTok THEN Append(cmd, tok) ELSE cmd
            IN [ok |-> TRUE, cmds |-> IF c2 = <<>> THEN cmds ELSE Append(cmds, c2)]
  ELSE LET c == line[i]
       IN IF quote
          THEN IF c = DQ THEN Lex(line, i + 1, FALSE, tok, TRUE, cmd, cmds)
               ELSE Lex(line, i + 1, TRUE, Append(tok, c), TRUE, cmd, cmds)
          ELSE IF c = DQ THEN Lex(line, i + 1, TRUE, tok, TRUE, cmd, cmds)
          ELSE IF c = SP
               THEN Lex(line, i + 1, FALSE, <<>>, FALSE,
                        IF inTok THEN Append(cmd, tok) ELSE cmd, cmds)
          ELSE IF c = SEMI
               THEN LET c2 == IF inTok THEN Append(cmd, tok) ELSE cmd
                    IN IF c2 = <<>> THEN [ok |-> FALSE, cmds |-> <<>>]
                       ELSE Lex(line, i + 1, FALSE, <<>>, FALSE, <<>>, Append(cmds, c2))
          ELSE Lex(line, i + 1, FALSE, Append(tok, c), TRUE, cmd, cmds)

(* the commands of a line, each its list of words *)
ShellParse(line) == Lex(line, 1, FALSE, <<>>, FALSE, <<>>, <<>>)

(***************************************************************************)
(* State.                                                                  *)
(*   pc        where the one call in flight stands                         *)
(*   req       request.params: name, and arguments if the caller sent any  *)
(*   cmdline   the string given to exec                                    *)
(*   cwd       options.cwd; Undef when the child inherits the server's     *)
(*   spawns    how many times this call has invoked exec                   *)
(*   ran       the commands the shell ran for this call                    *)
(*   proc      the child: its state, exit code, stdout and stderr          *)
(*   response  what the call answered                                      *)
(***************************************************************************)
NoProc == [state |-> "none", code |-> 0, stdout |-> <<>>, stderr |-> <<>>]
NoResponse == [kind |-> "none", code |-> "", text |-> <<>>]
NoRequest == [name |-> "", hasArgs |-> FALSE, args |-> NoArgs]

(* a call none has made yet *)
NoCall ==
  [pc |-> "idle", req |-> NoRequest, cmdline |-> <<>>, cwd |-> Undef, spawns |-> 0,
   ran |-> <<>>, proc |-> NoProc, response |-> NoResponse]

Init ==
  /\ pc = "idle"
  /\ req = NoRequest
  /\ cmdline = <<>>
  /\ cwd = Undef
  /\ spawns = 0
  /\ ran = <<>>
  /\ proc = NoProc
  /\ response = NoResponse
  /\ parked = NoCall
  /\ active = 1

(* a CallTool request arrives *)
callTool ==
  /\ pc = "idle"
  /\ \E name \in ToolNames \cup OtherNames :
       \/ \E args \in ArgsOf(name) :
            req' = [name |-> name, hasArgs |-> TRUE, args |-> args]
       \/ req' = [name |-> name, hasArgs |-> FALSE, args |-> NoArgs]
  /\ pc' = "received"
  /\ UNCHANGED <<cmdline, cwd, spawns, ran, proc, response, parked, active>>

(* McpError, were every error wrapped by the catch clause *)
McpErrorWrapped(code, message) ==
  [kind |-> "error", code |-> "InternalError",
   text |-> IF code = "InternalError" THEN message ELSE <<"Git error: ">> \o message]

(* new McpError(code, message) *)
McpError(code, message) == [kind |-> "error", code |-> code, text |-> message]

(* the catch clause of the CallTool handler, for an error that is no McpError *)
Catch(message) == McpError("InternalError", <<"Git error: ">> \o message)

(* reading a property of an undefined argument bag *)
TypeError == <<"Cannot read properties of undefined">>

Throw(message) ==
  /\ response' = Catch(message)
  /\ pc' = "responded"
  /\ UNCHANGED <<req, cmdline, cwd, spawns, ran, proc, parked, active>>

(* execGit, were a failed exec tried again *)
execGitRetry(command, dir) ==
  /\ cmdline' = <<"git", SP>> \o command
  /\ cwd' = IF Truthy(dir) THEN dir ELSE Undef
  /\ spawns' = spawns + 2
  /\ proc' = [NoProc EXCEPT !.state = "running"]
  /\ pc' = "running"
  /\ UNCHANGED <<req, ran, response, parked, active>>

(* execGit, were the directory kept by process.chdir instead of passed to exec *)
execGitChdir(command, dir) ==
  /\ cmdline' = <<"git", SP>> \o command
  /\ cwd' = IF Truthy(dir) THEN dir ELSE parked.cwd
  /\ spawns' = spawns + 1
  /\ proc' = [NoProc EXCEPT !.state = "running"]
  /\ pc' = "running"
  /\ UNCHANGED <<req, ran, response, parked, active>>

(* execGit, were the command string kept in a field of the server *)
execGitSharedCommand(command, dir) ==
  /\ cmdline' = IF parked.pc = "running" THEN parked.cmdline \o <<SP>> \o command
                ELSE <<"git", SP>> \o command
  /\ cwd' = IF Truthy(dir) THEN dir ELSE Undef
  /\ spawns' = spawns + 1
  /\ proc' = [NoProc EXCEPT !.state = "running"]
  /\ pc' = "running"
  /\ UNCHANGED <<req, ran, response, parked, active>>

(* execGit up to its await: one exec of `git ${command}` *)
execGit(command, dir) ==
  /\ cmdline' = <<"git", SP>> \o command
  /\ cwd' = IF Truthy(dir) THEN dir ELSE Undef
  /\ spawns' = spawns + 1
  /\ proc' = [NoProc EXCEPT !.state = "running"]
  /\ pc' = "running"
  /\ UNCHANGED <<req, ran, response, parked, active>>

Dispatched(name) == pc = "received" /\ req.name = name

handleInit ==
  /\ Dispatched("git_init")
  /\ IF req.hasArgs THEN execGit(cmdInit(req.args), Undef) ELSE Throw(TypeError)

handleClone ==
  /\ Dispatched("git_clone")
  /\ IF req.hasArgs THEN execGit(cmdClone(req.args), Undef) ELSE Throw(TypeError)

handleStatus ==
  /\ Dispatched("git_status")
  /\ IF req.hasArgs THEN execGit(cmdStatus(req.args), req.args.path)
     ELSE Throw(TypeError)

handleAdd ==
  /\ Dispatched("git_add")
  /\ IF req.hasArgs THEN execGit(cmdAdd(req.args), req.args.path) ELSE Throw(TypeError)

handleCommit ==
  /\ Dispatched("git_commit")
  /\ IF req.hasArgs THEN execGit(cmdCommit(req.args), req.args.path)
     ELSE Throw(TypeError)

handlePush ==
  /\ Dispatched("git_push")
  /\ IF req.hasArgs THEN execGit(cmdPush(req.args), req.args.path) ELSE Throw(TypeError)

handlePull ==
  /\ Dispatched("git_pull")
  /\ IF req.hasArgs THEN execGit(cmdPull(req.args), req.args.path) ELSE Throw(TypeError)

handleBranch ==
  /\ Dispatched("git_branch")
  /\ IF req.hasArgs THEN execGit(cmdBranch(req.args), req.args.path)
     ELSE Throw(TypeError)

handleCheckout ==
  /\ Dispatched("git_checkout")
  /\ IF req.hasArgs THEN execGit(cmdCheckout(req.args), req.args.path)
     ELSE Throw(TypeError)

handleMerge ==
  /\ Dispatched("git_merge")
  /\ IF req.hasArgs THEN execGit(cmdMerge(req.args), req.args.path)
     ELSE Throw(TypeError)

handleLog ==
  /\ Dispatched("git_log")
  /\ IF req.hasArgs THEN execGit(cmdLog(req.args), req.args.path) ELSE Throw(TypeError)

handleDiff ==
  /\ Dispatched("git_diff")
  /\ IF req.hasArgs THEN execGit(cmdDiff(req.args), req.args.path) ELSE Throw(TypeError)

handleStash ==
  /\ Dispatched("git_stash")
  /\ IF req.hasArgs THEN execGit(cmdStash(req.args), req.args.path)
     ELSE Throw(TypeError)

handleRemote ==
  /\ Dispatched("git_remote")
  /\ IF req.hasArgs THEN execGit(cmdRemote(req.args), req.args.path)
     ELSE Throw(TypeError)

handleTag ==
  /\ Dispatched("git_tag")
  /\ IF req.hasArgs THEN execGit(cmdTag(req.args), req.args.path) ELSE Throw(TypeError)

handleReset ==
  /\ Dispatched("git_reset")
  /\ IF req.hasArgs THEN execGit(cmdReset(req.args), req.args.path)
     ELSE Throw(TypeError)

(* the default case of the switch: a McpError, which the catch clause rethrows *)
unknownTool ==
  /\ pc = "received"
  /\ req.name \notin ToolNames
  /\ response' = McpError("MethodNotFound", <<"Unknown tool: ", req.name>>)
  /\ pc' = "responded"
  /\ UNCHANGED <<req, cmdline, cwd, spawns, ran, proc, parked, active>>

(***************************************************************************)
(* The child.  What git (or anything else the line runs) prints and        *)
(* returns is not the server's to decide.                                  *)
(***************************************************************************)
Outcomes ==
  {[state |-> "exited", code |-> 0, stdout |-> <<>>, stderr |-> <<>>],
   [state |-> "exited", code |-> 0, stdout |-> <<"out">>, stderr |-> <<>>],
   [state |-> "exited", code |-> 0, stdout |-> <<>>, stderr |-> <<"err">>],
   [state |-> "exited", code |-> 1, stdout |-> <<>>, stderr |-> <<"err">>],
   [state |-> "exited", code |-> 1, stdout |-> <<"out">>, stderr |-> <<>>]}

SyntaxError ==
  [state |-> "exited", code |-> 2, stdout |-> <<>>, stderr |-> <<"Syntax error">>]

(* the shell could not be started (no such cwd, no /bin/sh, no more processes) *)
spawnError ==
  /\ pc = "running"
  /\ proc' = [NoProc EXCEPT !.state = "spawnerror"]
  /\ pc' = "exited"
  /\ UNCHANGED <<req, cmdline, cwd, spawns, ran, response, parked, active>>

(* the shell runs the line and exits *)
shellExit ==
  /\ pc = "running"
  /\ LET p == ShellParse(cmdline)
     IN IF p.ok
        THEN /\ ran' = p.cmds
             /\ proc' \in Outcomes
        ELSE /\ ran' = <<>>
             /\ proc' = SyntaxError
  /\ pc' = "exited"
  /\ UNCHANGED <<req, cmdline, cwd, spawns, response, parked, active>>

(* Rejects, were the exit code not looked at *)
RejectsSpawnOnly(p) == p.state = "spawnerror"

(* exec's callback gets an error: promisify(exec) rejects *)
Rejects(p) == p.state = "spawnerror" \/ p.code # 0

(* error.message of that rejection *)
ExecErrorMessage(p, line) ==
  IF p.state = "spawnerror" THEN <<"spawn /bin/sh ENOENT">>
  ELSE <<"Command failed: ">> \o line \o <<"\n">> \o p.stderr

(* OrDefault, were the fallback forgotten *)
OrDefaultNone(stdout, d) == stdout

(* `stdout || d` *)
OrDefault(stdout, d) == IF stdout # <<>> THEN stdout ELSE d

(* the text each handler returns *)
ResultText(name, args, stdout) ==
  CASE name = "git_init" -> OrDefault(stdout, <<"Git repository initialized successfully">>)
    [] name = "git_clone" -> OrDefault(stdout, <<"Repository cloned successfully">>)
    [] name = "git_status" -> stdout
    [] name = "git_add" -> OrDefault(stdout, <<"Files added to staging area">>)
    [] name = "git_commit" -> stdout
    [] name = "git_push" -> OrDefault(stdout, <<"Push completed successfully">>)
    [] name = "git_pull" -> stdout
    [] name = "git_branch" -> OrDefault(stdout, <<"Branch operation completed">>)
    [] name = "git_checkout" ->
         OrDefault(stdout, <<"Switched to branch '">> \o ToStr(args.branch) \o <<"'">>)
    [] name = "git_merge" -> stdout
    [] name = "git_log" -> stdout
    [] name = "git_diff" -> OrDefault(stdout, <<"No differences found">>)
    [] name = "git_stash" -> OrDefault(stdout, <<"Stash operation completed">>)
    [] name = "git_remote" -> OrDefault(stdout, <<"Remote operation completed">>)
    [] name = "git_tag" -> OrDefault(stdout, <<"Tag operation completed">>)
    [] name = "git_reset" -> OrDefault(stdout, <<"Reset completed">>)

(* handlerReturn, were execAsync not awaited *)
handlerReturnEarly ==
  /\ pc \in {"running", "exited"}
  /\ ~Rejects(proc)
  /\ response' = [kind |-> "result", code |-> "",
                  text |-> ResultText(req.name, req.args, proc.stdout)]
  /\ pc' = "responded"
  /\ UNCHANGED <<req, cmdline, cwd, spawns, ran, proc, parked, active>>

(* the await in the handler resumes: it returns its text *)
handlerReturn ==
  /\ pc = "exited"
  /\ ~Rejects(proc)
  /\ response' = [kind |-> "result", code |-> "",
                  text |-> ResultText(req.name, req.args, proc.stdout)]
  /\ pc' = "responded"
  /\ UNCHANGED <<req, cmdline, cwd, spawns, ran, proc, parked, active>>

(* the await throws: the catch clause wraps exec's error *)
handlerCatch ==
  /\ pc = "exited"
  /\ Rejects(proc)
  /\ response' = Catch(ExecErrorMessage(proc, cmdline))
  /\ pc' = "responded"
  /\ UNCHANGED <<req, cmdline, cwd, spawns, ran, proc, parked, active>>

(* the call is over; nothing of it is kept *)
callEnds ==
  /\ pc = "responded"
  /\ pc' = "idle"
  /\ req' = NoRequest
  /\ cmdline' = <<>>
  /\ cwd' = Undef
  /\ spawns' = 0
  /\ ran' = <<>>
  /\ proc' = NoProc
  /\ response' = NoResponse
  /\ UNCHANGED <<parked, active>>

Next ==
  \/ callTool
  \/ handleInit
  \/ handleClone
  \/ handleStatus
  \/ handleAdd
  \/ handleCommit
  \/ handlePush
  \/ handlePull
  \/ handleBranch
  \/ handleCheckout
  \/ handleMerge
  \/ handleLog
  \/ handleDiff
  \/ handleStash
  \/ handleRemote
  \/ handleTag
  \/ handleReset
  \/ unknownTool
  \/ spawnError
  \/ shellExit
  \/ handlerReturn
  \/ handlerCatch
  \/ callEnds

Spec == Init /\ [][Next]_vars

(***************************************************************************)
(* What the properties below speak of.                                     *)
(***************************************************************************)
(* the switch of the CallTool handler: the command string of a request *)
Compose(name, args) ==
  CASE name = "git_init" -> cmdInit(args)
    [] name = "git_clone" -> cmdClone(args)
    [] name = "git_status" -> cmdStatus(args)
    [] name = "git_add" -> cmdAdd(args)
    [] name = "git_commit" -> cmdCommit(args)
    [] name = "git_push" -> cmdPush(args)
    [] name = "git_pull" -> cmdPull(args)
    [] name = "git_branch" -> cmdBranch(args)
    [] name = "git_checkout" -> cmdCheckout(args)
    [] name = "git_merge" -> cmdMerge(args)
    [] name = "git_log" -> cmdLog(args)
    [] name = "git_diff" -> cmdDiff(args)
    [] name = "git_stash" -> cmdStash(args)
    [] name = "git_remote" -> cmdRemote(args)
    [] name = "git_tag" -> cmdTag(args)
    [] name = "git_reset" -> cmdReset(args)

(* inputSchema.required *)
Required(name) ==
  CASE name = "git_clone" -> {"url"}
    [] name = "git_commit" -> {"message"}
    [] name = "git_checkout" -> {"branch"}
    [] name = "git_merge" -> {"branch"}
    [] OTHER -> {}

(* the call in flight has passed its handler's exec *)
Spawned == pc \in {"running", "exited", "responded"} /\ proc.state # "none"

(* the call in flight is to one of the sixteen tools and carries an argument bag *)
Composed == Spawned /\ req.name \in ToolNames /\ req.hasArgs

OmitsRequired ==
  /\ pc # "idle"
  /\ Required(req.name) # {}
  /\ \/ ~req.hasArgs
     \/ \E f \in Required(req.name) : req.args[f] = Undef

(* C1: a call that omits a required field (clone without url, commit without
   message, checkout or merge without branch) spawns no process and, once
   answered, is answered with an error. *)
C1_RequiredFieldRejected ==
  OmitsRequired =>
    /\ spawns = 0
    /\ pc = "responded" => response.kind = "error"

(* C2: whatever the argument values, the only program a call runs is git, once. *)
C2_OnlyGitRuns ==
  (pc \in {"exited", "responded"} /\ proc.state = "exited") =>
    /\ Len(ran) <= 1
    /\ \A i \in 1..Len(ran) : ran[i][1] = <<"git">>

(* the string fields a handler interpolates into the command string *)
Interpolated(name) ==
  CASE name = "git_init" -> {"initialBranch", "path"}
    [] name = "git_clone" -> {"url", "path", "branch"}
    [] name = "git_commit" -> {"message", "author"}
    [] name = "git_push" -> {"remote", "branch"}
    [] name = "git_pull" -> {"remote", "branch"}
    [] name = "git_branch" -> {"name", "newName"}
    [] name = "git_checkout" -> {"branch"}
    [] name = "git_merge" -> {"branch", "message"}
    [] name = "git_log" -> {"author", "since", "until"}
    [] name = "git_diff" -> {"commit"}
    [] name = "git_stash" -> {"message"}
    [] name = "git_remote" -> {"name", "url"}
    [] name = "git_tag" -> {"name", "message"}
    [] name = "git_reset" -> {"commit"}
    [] OTHER -> {}

(* argv is argv0 with the "a" that ends one word replaced by value *)
SameButValue(argv0, argv, value) ==
  /\ Len(argv) = Len(argv0)
  /\ \E j \in 1..Len(argv0) :
       /\ Len(argv0[j]) >= 1
       /\ argv0[j][Len(argv0[j])] = "a"
       /\ argv[j] = SubSeq(argv0[j], 1, Len(argv0[j]) - 1) \o value
       /\ \A k \in 1..Len(argv0) : k # j => argv[k] = argv0[k]

(* field f of the request reaches git as one word holding its value: the words
   git gets are those it gets when f is "a", but for that one word *)
OneToken(f) ==
  LET plain == ShellParse(<<"git", SP>> \o Compose(req.name, [req.args EXCEPT ![f] = A]))
      got == ShellParse(cmdline)
  IN \/ <<"git", SP>> \o Compose(req.name, [req.args EXCEPT ![f] = A]) = cmdline
     \/ /\ got.ok
        /\ Len(got.cmds) = 1
        /\ plain.ok /\ Len(plain.cmds) = 1
        /\ SameButValue(plain.cmds[1], got.cmds[1], req.args[f].s)

(* C3: every supplied string value reaches git as exactly one argument word
   whose content is the value: it neither splits nor merges with its
   neighbours. *)
C3_ValueIsOneToken ==
  Composed =>
    \A f \in Interpolated(req.name) :
      (req.args[f].t = "string" /\ req.args[f].s # <<>>) => OneToken(f)

(* C4: a child that exits non-zero, or cannot be spawned, ends the call in an
   error whose message is not empty, and a result is returned only for a child
   that exited zero. *)
C4_FailureIsError ==
  (pc = "responded" /\ proc.state # "none") =>
    /\ (proc.state = "spawnerror" \/ proc.code # 0) =>
         /\ response.kind = "error"
         /\ Len(response.text) > 1
    /\ response.kind = "result" => (proc.state = "exited" /\ proc.code = 0)

C4_Witness ==
  /\ pc = "responded"
  /\ proc.state = "exited"
  /\ proc.code = 1
  /\ response.kind = "error"
  /\ req.name = "git_merge"

(* the tools whose handler returns stdout as it is *)
NoDefault == {"git_status", "git_commit", "git_pull", "git_merge", "git_log"}

(* the literal each of the other handlers falls back to *)
DefaultMessage ==
  [git_init |-> <<"Git repository initialized successfully">>,
   git_clone |-> <<"Repository cloned successfully">>,
   git_add |-> <<"Files added to staging area">>,
   git_push |-> <<"Push completed successfully">>,
   git_branch |-> <<"Branch operation completed">>,
   git_diff |-> <<"No differences found">>,
   git_stash |-> <<"Stash operation completed">>,
   git_remote |-> <<"Remote operation completed">>,
   git_tag |-> <<"Tag operation completed">>,
   git_reset |-> <<"Reset completed">>]

Succeeded == pc = "responded" /\ response.kind = "result"

(* C5 as claimed: for every one of the sixteen tools a successful call never
   returns an empty text: empty stdout is replaced by the tool's default
   message, non-empty stdout is returned unchanged. *)
C5_DefaultForEveryTool ==
  Succeeded =>
    /\ response.text # <<>>
    /\ proc.stdout # <<>> => response.text = proc.stdout
    /\ (proc.stdout = <<>> /\ req.name \in DOMAIN DefaultMessage) =>
         response.text = DefaultMessage[req.name]

(* C5, amended: for init, clone, add, push, branch, checkout, diff, stash,
   remote, tag and reset empty stdout is replaced by the tool's non-empty
   default message (checkout's names the requested branch); for status, commit,
   pull, merge and log the text is stdout as it is, empty when stdout is empty.
   Non-empty stdout is always returned unchanged. *)
C5_DefaultWhereDeclared ==
  Succeeded =>
    /\ proc.stdout # <<>> => response.text = proc.stdout
    /\ proc.stdout = <<>> =>
         IF req.name \in NoDefault THEN response.text = <<>>
         ELSE IF req.name = "git_checkout"
              THEN response.text =
                     <<"Switched to branch '">> \o ToStr(req.args.branch) \o <<"'">>
         ELSE response.text = DefaultMessage[req.name]

C5_Witness ==
  /\ Succeeded
  /\ proc.stdout = <<>>
  /\ req.name = "git_add"
  /\ response.text = <<"Files added to staging area">>

(* C6: a call to one of the sixteen tools whose command string is composed
   invokes exec exactly once, and no call invokes it more than once. *)
C6_ExactlyOneSpawn ==
  /\ spawns <= 1
  /\ (pc \in {"running", "exited"}) => spawns = 1
  /\ (pc = "responded" /\ req.name \in ToolNames /\ req.hasArgs) => spawns = 1
  /\ (pc = "responded" /\ req.name \notin ToolNames) => spawns = 0

C6_Witness ==
  /\ pc = "responded"
  /\ req.name = "git_stash"
  /\ req.hasArgs
  /\ spawns = 1
  /\ response.kind = "result"

Verb == IF req.name = "git_push" THEN "push" ELSE "pull"

FlagWords == {"--force", "--set-upstream", "--tags", "--rebase", "--no-ff"}

(* a value the shell reads as one word *)
PlainWord(w) == w # <<>> /\ \A i \in 1..Len(w) : w[i] \notin {SP, DQ, SEMI}

(* the command string is `git <verb>`, then flags only, then remote, then branch *)
PushPullText(remote, branchTail) ==
  LET tail == <<SP>> \o remote \o branchTail
      n == Len(cmdline) - Len(tail)
  IN /\ n >= 3
     /\ SubSeq(cmdline, 1, 3) = <<"git", SP, Verb>>
     /\ SubSeq(cmdline, n + 1, Len(cmdline)) = tail
     /\ \A i \in 4..n : IF i % 2 = 0 THEN cmdline[i] = SP ELSE cmdline[i] \in FlagWords

(* the same of the words git gets, for values the shell reads as one word each *)
PushPullArgv(remote, branchTail) ==
  LET p == ShellParse(cmdline)
      argv == p.cmds[1]
      m == Len(argv)
      r == IF branchTail = <<>> THEN m ELSE m - 1
  IN /\ p.ok /\ Len(p.cmds) = 1
     /\ r >= 3
     /\ argv[1] = <<"git">> /\ argv[2] = <<Verb>>
     /\ argv[r] = remote
     /\ branchTail # <<>> => argv[m] = Tail(branchTail)
     /\ \A i \in 3..(r - 1) : argv[i] \in {<<w>> : w \in FlagWords}

(* C7: git_push and git_pull put remote after every flag and before branch;
   an omitted remote is origin, a supplied non-empty one is used as given;
   branch is there only when supplied. *)
C7_RemoteDefaultAndOrder ==
  (Composed /\ req.name \in {"git_push", "git_pull"}) =>
    LET a == req.args
        remotes == IF a.remote = Undef THEN {<<"origin">>}
                   ELSE IF a.remote.s # <<>> THEN {a.remote.s}
                   ELSE {<<"origin">>, <<>>}
        branchTail == IF a.branch.t = "string" /\ a.branch.s # <<>>
                      THEN <<SP>> \o a.branch.s ELSE <<>>
    IN \E remote \in remotes :
         /\ PushPullText(remote, branchTail)
         /\ (PlainWord(remote) /\ (branchTail = <<>> \/ PlainWord(a.branch.s))) =>
              PushPullArgv(remote, branchTail)

C7_Witness ==
  /\ pc = "running"
  /\ req.name = "git_push"
  /\ req.hasArgs
  /\ req.args.remote = Undef
  /\ req.args.branch = A
  /\ cmdline = <<"git", SP, "push", SP, "--force", SP, "origin", SP, "a">>

(* C8: git_reset always composes `reset --<mode> <commit>` with mode one of
   soft, mixed, hard: --mixed when mode is omitted, HEAD when commit is. *)
C8_ResetForm ==
  (Composed /\ req.name = "git_reset" /\ req.args.mode \in Enum(ResetModes)) =>
    LET a == req.args
        commits == IF a.commit = Undef THEN {<<"HEAD">>}
                   ELSE IF a.commit.s # <<>> THEN {a.commit.s}
                   ELSE {<<"HEAD">>, <<>>}
    IN \E m \in ResetModes : \E c \in commits :
         /\ a.mode = Undef => m = "mixed"
         /\ a.mode # Undef => a.mode.s = <<m>>
         /\ cmdline = <<"git", SP, "reset", SP, "--", m, SP>> \o c

(* piece stands in w as whole words *)
HasWords(w, piece) ==
  \E i \in 0..(Len(w) - Len(piece)) :
    /\ SubSeq(w, i + 1, i + Len(piece)) = piece
    /\ (i + Len(piece) = Len(w) \/ w[i + Len(piece) + 1] = SP)

(* C9: git_log composes the count flag -10 when limit is omitted and -n when
   limit n is supplied. *)
C9_LogLimit ==
  (Composed /\ req.name = "git_log") =>
    LET n == IF req.args.limit = Undef THEN 10 ELSE req.args.limit.n
    IN HasWords(cmdline, <<SP, "-">> \o NumStr(n))

(* the flag each boolean field stands for *)
BoolFlags(name) ==
  CASE name = "git_init" -> [bare |-> "--bare"]
    [] name = "git_clone" -> [recursive |-> "--recursive"]
    [] name = "git_status" ->
         [short |-> "--short", branch |-> "--branch", porcelain |-> "--porcelain"]
    [] name = "git_add" -> [all |-> "--all", update |-> "--update"]
    [] name = "git_commit" -> [all |-> "--all", amend |-> "--amend"]
    [] name = "git_push" ->
         [force |-> "--force", setUpstream |-> "--set-upstream", tags |-> "--tags"]
    [] name = "git_pull" -> [rebase |-> "--rebase"]
    [] name = "git_branch" -> [all |-> "--all", remote |-> "--remote"]
    [] name = "git_checkout" -> [create |-> "-b", force |-> "--force"]
    [] name = "git_merge" -> [noFf |-> "--no-ff", squash |-> "--squash"]
    [] name = "git_log" -> [oneline |-> "--oneline", graph |-> "--graph"]
    [] name = "git_diff" ->
         [cached |-> "--cached", stat |-> "--stat", nameOnly |-> "--name-only"]
    [] name = "git_stash" -> [includeUntracked |-> "--include-untracked"]
    [] name = "git_remote" -> [verbose |-> "-v"]
    [] name = "git_tag" -> [annotated |-> "-a", force |-> "-f"]
    [] OTHER -> [x \in {} |-> ""]

(* c1 is c0 with piece put in between two of its words *)
Inserted(c0, c1, piece) ==
  \E i \in 0..Len(c0) :
    /\ (i = Len(c0) \/ c0[i + 1] = SP)
    /\ c1 = SubSeq(c0, 1, i) \o piece \o SubSeq(c0, i + 1, Len(c0))

(* the command string of the call in flight, had field f been v *)
Had(f, v) == <<"git", SP>> \o Compose(req.name, [req.args EXCEPT ![f] = v])

Offs == {Undef, Bool(FALSE)}

(* C10 as claimed: for every boolean field, whatever the other fields, true
   instead of absent or false adds exactly the field's flag to the command
   string and changes nothing else. *)
C10_ToggleAddsFlag ==
  Composed =>
    \A f \in DOMAIN BoolFlags(req.name) :
      req.args[f] = Bool(TRUE) =>
        \A off \in Offs : Inserted(Had(f, off), cmdline, <<SP, BoolFlags(req.name)[f]>>)

(* the fields whose true does something other than add a flag *)
Replacing(name) ==
  CASE name = "git_add" -> {"all", "update"}
    [] name = "git_tag" -> {"annotated"}
    [] OTHER -> {}

(* the handler's branch that reads the field is the one the action selects *)
Applies(name, args) ==
  CASE name = "git_branch" ->
         ~(Is(args.action, "create") \/ Is(args.action, "delete")
             \/ Is(args.action, "rename"))
    [] name = "git_stash" -> Is(args.action, "save")
    [] name = "git_remote" ->
         ~(Is(args.action, "add") \/ Is(args.action, "remove")
             \/ Is(args.action, "set-url") \/ Is(args.action, "show"))
    [] name = "git_tag" -> Is(args.action, "create")
    [] OTHER -> TRUE

(* C10, amended: for every boolean field other than add.all, add.update,
   tag.annotated and pull.ff, whatever the other fields, true instead of absent
   or false adds exactly the field's flag and changes nothing else when the
   request's action is the one whose branch reads the field (branch.all and
   branch.remote: list or none; stash.includeUntracked: save; remote.verbose:
   list or none; tag.force: create; every other field: always), and changes
   nothing at all otherwise.  Of the four: add.all makes the target --all;
   add.update makes it --update unless all is true, and then changes nothing;
   tag.annotated adds -a before the name and -m <message> after it when the
   action is create and message is non-empty, and changes nothing otherwise;
   pull.ff true adds nothing to the absent case and takes --no-ff away from the
   false case. *)
C10_ToggleAddsFlagWhereRead ==
  Composed =>
    LET name == req.name
        a == req.args
    IN /\ \A f \in (DOMAIN BoolFlags(name)) \ Replacing(name) :
            a[f] = Bool(TRUE) =>
              \A off \in Offs :
                IF Applies(name, a)
                THEN Inserted(Had(f, off), cmdline, <<SP, BoolFlags(name)[f]>>)
                ELSE cmdline = Had(f, off)
       /\ (name = "git_add" /\ a.all = Bool(TRUE)) =>
            cmdline = <<"git", SP, "add", SP, "--all">>
       /\ (name = "git_add" /\ a.update = Bool(TRUE)) =>
            IF Truthy(a.all) THEN \A off \in Offs : cmdline = Had("update", off)
            ELSE cmdline = <<"git", SP, "add", SP, "--update">>
       /\ (name = "git_tag" /\ a.annotated = Bool(TRUE)) =>
            \A off \in Offs :
              IF Is(a.action, "create") /\ Truthy(a.message)
              THEN LET mid == Had("annotated", off)
                   IN \E i \in 0..(Len(mid) - 1) :
                        LET j == i + 1 + Len(Quoted(a.name))
                        IN /\ mid[i + 1] = SP
                           /\ j <= Len(mid)
                           /\ cmdline = SubSeq(mid, 1, i) \o <<SP, "-a">>
                                          \o SubSeq(mid, i + 1, j)
                                          \o <<SP, "-m", SP>> \o Quoted(a.message)
                                          \o SubSeq(mid, j + 1, Len(mid))
              ELSE cmdline = Had("annotated", off)
       /\ (name = "git_pull" /\ a.ff = Bool(TRUE)) =>
            /\ cmdline = Had("ff", Undef)
            /\ Inserted(cmdline, Had("ff", Bool(FALSE)), <<SP, "--no-ff">>)

C10_Witness ==
  /\ pc = "running"
  /\ req.name = "git_checkout"
  /\ req.hasArgs
  /\ req.args.create = Bool(TRUE)
  /\ req.args.force = Undef
  /\ req.args.branch = A
  /\ cmdline = <<"git", SP, "checkout", SP, "-b", SP, DQ, "a", DQ>>

(* inputSchema enum of the tool's action *)
ActionsOf(name) ==
  CASE name = "git_branch" -> BranchActions
    [] name = "git_stash" -> StashActions
    [] name = "git_remote" -> RemoteActions
    [] name = "git_tag" -> TagActions
    [] OTHER -> {}

(* the fields the request's action cannot do without *)
Needs(name, args) ==
  CASE name = "git_branch" /\ (Is(args.action, "create") \/ Is(args.action, "delete")) ->
         {"name"}
    [] name = "git_branch" /\ Is(args.action, "rename") -> {"name", "newName"}
    [] name = "git_remote" /\ (Is(args.action, "add") \/ Is(args.action, "set-url")) ->
         {"name", "url"}
    [] name = "git_remote" /\ Is(args.action, "remove") -> {"name"}
    [] name = "git_tag" /\ (Is(args.action, "create") \/ Is(args.action, "delete")) ->
         {"name"}
    [] OTHER -> {}

InvalidRequest ==
  /\ pc # "idle"
  /\ req.hasArgs
  /\ \/ /\ ActionsOf(req.name) # {}
        /\ req.args.action.t = "string"
        /\ req.args.action.s \notin {<<x>> : x \in ActionsOf(req.name)}
     \/ \E f \in Needs(req.name, req.args) : req.args[f] = Undef
     \/ /\ req.name = "git_reset"
        /\ req.args.mode.t = "string"
        /\ req.args.mode.s \notin {<<x>> : x \in ResetModes}

(* C11: a request with an action outside its enumeration, an action whose
   name, newName or url is missing, or a reset mode outside soft, mixed, hard
   spawns no process and, once answered, is answered with an error. *)
C11_InvalidRequestRejected ==
  InvalidRequest =>
    /\ spawns = 0
    /\ pc = "responded" => response.kind = "error"

(* C12: git_stash without action composes what action save composes:
   `stash push`, with -m <message> and --include-untracked when given. *)
C12_StashDefaultsToSave ==
  (Composed /\ req.name = "git_stash" /\ req.args.action = Undef) =>
    /\ cmdline = Had("action", Str(<<"save">>))
    /\ SubSeq(cmdline, 1, 5) = <<"git", SP, "stash", SP, "push">>

(* C13: git_clone composes --recursive unless recursive is explicitly false. *)
C13_CloneRecursiveByDefault ==
  (Composed /\ req.name = "git_clone") =>
    (HasWords(cmdline, <<SP, "--recursive">>) <=> req.args.recursive # Bool(FALSE))

(* inputSchema default of each field that has one *)
Defaults(name) ==
  CASE name = "git_init" -> [initialBranch |-> Str(<<"main">>), bare |-> Bool(FALSE)]
    [] name = "git_clone" -> [recursive |-> Bool(TRUE)]
    [] name = "git_status" ->
         [short |-> Bool(FALSE), branch |-> Bool(TRUE), porcelain |-> Bool(FALSE)]
    [] name = "git_add" -> [all |-> Bool(FALSE), update |-> Bool(FALSE)]
    [] name = "git_commit" -> [all |-> Bool(FALSE), amend |-> Bool(FALSE)]
    [] name = "git_push" ->
         [remote |-> Str(<<"origin">>), force |-> Bool(FALSE),
          setUpstream |-> Bool(FALSE), tags |-> Bool(FALSE)]
    [] name = "git_pull" ->
         [remote |-> Str(<<"origin">>), rebase |-> Bool(FALSE), ff |-> Bool(TRUE)]
    [] name = "git_branch" ->
         [action |-> Str(<<"list">>), all |-> Bool(FALSE), remote |-> Bool(FALSE)]
    [] name = "git_checkout" -> [create |-> Bool(FALSE), force |-> Bool(FALSE)]
    [] name = "git_merge" -> [noFf |-> Bool(FALSE), squash |-> Bool(FALSE)]
    [] name = "git_log" ->
         [limit |-> Num(10), oneline |-> Bool(FALSE), graph |-> Bool(FALSE)]
    [] name = "git_diff" ->
         [cached |-> Bool(FALSE), stat |-> Bool(FALSE), nameOnly |-> Bool(FALSE)]
    [] name = "git_stash" ->
         [action |-> Str(<<"save">>), includeUntracked |-> Bool(FALSE)]
    [] name = "git_remote" -> [action |-> Str(<<"list">>), verbose |-> Bool(FALSE)]
    [] name = "git_tag" ->
         [action |-> Str(<<"list">>), annotated |-> Bool(FALSE), force |-> Bool(FALSE)]
    [] name = "git_reset" -> [mode |-> Str(<<"mixed">>), commit |-> Str(<<"HEAD">>)]

(* C14: for every field the registry gives a default, a request without the
   field composes what the request with the default spelled out composes. *)
C14_DefaultsAgree ==
  Composed =>
    \A f \in DOMAIN Defaults(req.name) :
      req.args[f] = Undef => cmdline = Had(f, Defaults(req.name)[f])

(* what an optional string or number field adds to the command string *)
ValuePiece(name, f, v) ==
  CASE name = "git_init" /\ f = "initialBranch" -> <<SP, "--initial-branch=">> \o Quoted(v)
    [] name = "git_clone" /\ f = "branch" -> <<SP, "--branch", SP>> \o Quoted(v)
    [] name = "git_clone" /\ f = "depth" -> <<SP, "--depth", SP>> \o ToStr(v)
    [] name \in {"git_commit", "git_log"} /\ f = "author" -> <<SP, "--author=">> \o Quoted(v)
    [] name = "git_log" /\ f = "since" -> <<SP, "--since=">> \o Quoted(v)
    [] name = "git_log" /\ f = "until" -> <<SP, "--until=">> \o Quoted(v)
    [] name = "git_log" /\ f = "limit" -> <<SP, "-">> \o ToStr(v)
    [] name \in {"git_merge", "git_stash"} /\ f = "message" -> <<SP, "-m", SP>> \o Quoted(v)
    [] name = "git_stash" /\ f = "index" -> <<SP, "stash@{">> \o ToStr(v) \o <<"}">>
    [] name \in {"git_push", "git_pull"} /\ f = "branch" -> <<SP>> \o ToStr(v)
    [] name = "git_diff" /\ f = "commit" -> <<SP>> \o ToStr(v)
    [] OTHER -> <<SP>> \o Quoted(v)

(* the optional string and number fields the request's action reads *)
Valued(name, args) ==
  CASE name = "git_init" -> {"initialBranch", "path"}
    [] name = "git_clone" -> {"path", "branch", "depth"}
    [] name = "git_commit" -> {"author"}
    [] name = "git_push" -> {"branch"}
    [] name = "git_pull" -> {"branch"}
    [] name = "git_merge" -> {"message"}
    [] name = "git_log" -> {"limit", "author", "since", "until"}
    [] name = "git_diff" -> {"commit"}
    [] name = "git_stash" /\ Is(args.action, "save") -> {"message"}
    [] name = "git_stash" /\ (Is(args.action, "pop") \/ Is(args.action, "apply")
                                \/ Is(args.action, "drop")) -> {"index"}
    [] OTHER -> {}

(* C15: an optional string or number field adds its flag or positional to the
   command string exactly when it is present, with the value as supplied,
   whatever the value: 0 and the empty string too. *)
C15_PresentValueAddsToken ==
  Composed =>
    \A f \in Valued(req.name, req.args) :
      req.args[f] # Undef =>
        Inserted(Had(f, Undef), cmdline, ValuePiece(req.name, f, req.args[f]))

(* xs[i..], each in double quotes, a space before each *)
RECURSIVE QuotedFrom(_, _)
QuotedFrom(xs, i) ==
  IF i > Len(xs) THEN <<>> ELSE <<SP, DQ>> \o xs[i] \o <<DQ>> \o QuotedFrom(xs, i + 1)

TargetForms(a) ==
  {<<SP, "--all">>, <<SP, "--update">>, <<SP, ".">>}
    \cup (IF a.files.t = "array" /\ a.files.a # <<>> THEN {QuotedFrom(a.files.a, 1)} ELSE {})

(* C16: git_add composes exactly one target: --all if all is true; else
   --update if update is true; else the files, each quoted, in list order, if
   there are any; else `.`. *)
C16_AddTargetPrecedence ==
  (Composed /\ req.name = "git_add") =>
    LET a == req.args
        target == IF a.all = Bool(TRUE) THEN <<SP, "--all">>
                  ELSE IF a.update = Bool(TRUE) THEN <<SP, "--update">>
                  ELSE IF a.files.t = "array" /\ a.files.a # <<>>
                       THEN QuotedFrom(a.files.a, 1)
                  ELSE <<SP, ".">>
    IN /\ cmdline = <<"git", SP, "add">> \o target
       /\ \A form \in TargetForms(a) \ {target} :
            cmdline # <<"git", SP, "add">> \o form
       /\ (/\ target = QuotedFrom(a.files.a, 1)
           /\ \A i \in 1..Len(a.files.a) : PlainWord(a.files.a[i])) =>
            ShellParse(cmdline).cmds = <<<<<<"git">>, <<"add">>>> \o a.files.a>>

C16_Witness ==
  /\ pc = "running"
  /\ req.name = "git_add"
  /\ req.hasArgs
  /\ req.args.all = Bool(FALSE)
  /\ req.args.update = Undef
  /\ req.args.files = Arr(<<<<"a">>, <<"a", "a">>>>)
  /\ cmdline = <<"git", SP, "add", SP, DQ, "a", DQ, SP, DQ, "a", "a", DQ>>

(* C20: a name that is none of the sixteen tools ends in MethodNotFound, as
   thrown, with no process spawned; every other failure ends in InternalError
   whose message begins with `Git error: `. *)
C20_ErrorCodes ==
  pc = "responded" =>
    IF req.name \notin ToolNames
    THEN /\ response = [kind |-> "error", code |-> "MethodNotFound",
                        text |-> <<"Unknown tool: ", req.name>>]
         /\ spawns = 0
    ELSE response.kind = "error" =>
           /\ response.code = "InternalError"
           /\ Len(response.text) > 1
           /\ response.text[1] = "Git error: "

C20_Witness ==
  /\ pc = "responded"
  /\ req.name \notin ToolNames
  /\ response.code = "MethodNotFound"

C20_WitnessInternal ==
  /\ pc = "responded"
  /\ req.name = "git_tag"
  /\ proc.state = "spawnerror"
  /\ response.code = "InternalError"

(***************************************************************************)
(* Two calls outstanding at once.  Node runs one piece of JavaScript at a  *)
(* time: a call runs from its arrival to the await in execGit, and from    *)
(* the child's exit to its response, without interruption; in between, and *)
(* when it is over, other calls run.  pc, req, ... are the call that has   *)
(* control, parked is the other one, active tells which of the two has     *)
(* control.                                                                *)
(***************************************************************************)
AA == Str(<<"a", "a">>)

(* one request per tool: the required fields and nothing else *)
Bare(name) ==
  {b \in ArgsOf(name) :
     \A f \in DOMAIN b : b[f] = IF f \in Required(name) THEN A ELSE Undef}

ConcPaths(name) ==
  IF name = "git_status" THEN {Undef, Str(<<>>), A, AA}
  ELSE IF name \in {"git_init", "git_log"} THEN {Undef, A}
  ELSE {A}

ConcRequests ==
  UNION {{[name |-> name, hasArgs |-> TRUE, args |-> [b EXCEPT !.path = p]] :
            b \in Bare(name), p \in ConcPaths(name)} : name \in ToolNames}
    \cup {[name |-> name, hasArgs |-> TRUE, args |-> NoArgs] : name \in OtherNames}

(* a CallTool request arrives, one of ConcRequests *)
callConc ==
  /\ pc = "idle"
  /\ req' \in ConcRequests
  /\ pc' = "received"
  /\ UNCHANGED <<cmdline, cwd, spawns, ran, proc, response, parked, active>>

(* the call that has control, as a record *)
Running ==
  [pc |-> pc, req |-> req, cmdline |-> cmdline, cwd |-> cwd, spawns |-> spawns,
   ran |-> ran, proc |-> proc, response |-> response]

(* the event loop turns to the other call: at the await, or between calls *)
switch ==
  /\ pc \in {"idle", "running", "exited"}
  /\ parked' = Running
  /\ active' = 3 - active
  /\ pc' = parked.pc
  /\ req' = parked.req
  /\ cmdline' = parked.cmdline
  /\ cwd' = parked.cwd
  /\ spawns' = parked.spawns
  /\ ran' = parked.ran
  /\ proc' = parked.proc
  /\ response' = parked.response

ConcNext ==
  \/ callConc
  \/ handleInit
  \/ handleClone
  \/ handleStatus
  \/ handleAdd
  \/ handleCommit
  \/ handlePush
  \/ handlePull
  \/ handleBranch
  \/ handleCheckout
  \/ handleMerge
  \/ handleLog
  \/ handleDiff
  \/ handleStash
  \/ handleRemote
  \/ handleTag
  \/ handleReset
  \/ unknownTool
  \/ spawnError
  \/ shellExit
  \/ handlerReturn
  \/ handlerCatch
  \/ callEnds
  \/ switch

ConcSpec == Init /\ [][ConcNext]_vars

(* JavaScript that has started runs to its next await: a request received is
   dispatched, an answer is sent *)
runs == ConcNext /\ pc \in {"received", "responded"}

(* the event loop runs the continuation of every settled await: a parked call
   whose child has exited gets control *)
resume == switch /\ parked.pc = "exited"

(* ... and a call that has control and whose child has exited answers.
   Nothing makes a child exit. *)
FairConcSpec ==
  /\ ConcSpec
  /\ WF_vars(runs)
  /\ SF_vars(resume)
  /\ \A k \in {1, 2} : SF_vars((handlerReturn \/ handlerCatch) /\ active = k)

(* the two calls *)
Calls == {Running, parked}
CallOf(k) == IF active = k THEN Running ELSE parked

(* the call has passed execGit's exec *)
Execd(c) == c.proc.state # "none"

(* C17: every tool but git_init and git_clone runs its process in the
   request's path when there is one and in the server's own directory when
   there is none (an empty path names no directory); git_init and git_clone
   always run theirs in the server's directory; so no call's process runs in
   a directory that came with another call. *)
C17_OwnWorkingDirectory ==
  \A c \in Calls :
    (Execd(c) /\ c.req.hasArgs) =>
      LET path == c.req.args.path
      IN c.cwd = IF c.req.name \in {"git_init", "git_clone"} THEN Undef
                 ELSE IF path.t = "string" /\ path.s # <<>> THEN path
                 ELSE Undef

C17_Witness ==
  /\ pc = "running"
  /\ req.name = "git_log"
  /\ req.args.path = Undef
  /\ cwd = Undef
  /\ parked.pc = "exited"
  /\ parked.req.name = "git_status"
  /\ parked.cwd = AA

C17_WitnessInit ==
  /\ pc = "running"
  /\ req.name = "git_init"
  /\ req.args.path = A
  /\ cwd = Undef
  /\ parked.pc = "running"
  /\ parked.cwd = A

(* the call has answered, or has gone after answering *)
Answered(c) == c.response.kind # "none"

(* C18: no call answers before its process has exited (or failed to start);
   a call waiting for its process does nothing but wait, and spawns no second
   process; an answer, once given, is the call's only one; and every call
   whose process has exited answers. *)
C18_ResponseFollowsExit ==
  /\ [](\A c \in Calls :
          /\ (Answered(c) /\ c.spawns > 0) => c.proc.state \in {"exited", "spawnerror"}
          /\ c.proc.state = "running" => ~Answered(c)
          /\ c.spawns <= 1)
  /\ [][\A k \in {1, 2} :
          /\ CallOf(k).pc = "running" => CallOf(k)'.pc \in {"running", "exited"}
          /\ Answered(CallOf(k)) =>
               \/ CallOf(k)'.response = CallOf(k).response
               \/ CallOf(k)' = NoCall]_vars
  /\ \A k \in {1, 2} : (CallOf(k).pc = "exited") ~> (CallOf(k).pc = "responded")

C18_Witness ==
  /\ pc = "responded"
  /\ proc.state = "exited"
  /\ response.kind = "result"
  /\ parked.pc = "running"
  /\ parked.response = NoResponse

(* what a call answers, given its own request, command string and process *)
ResponseOf(c) ==
  IF Rejects(c.proc) THEN Catch(ExecErrorMessage(c.proc, c.cmdline))
  ELSE [kind |-> "result", code |-> "",
        text |-> ResultText(c.req.name, c.req.args, c.proc.stdout)]

(* C19: however two outstanding calls interleave, and whatever ran before,
   each call's command string is the one its own request composes and each
   call's answer is the one its own process's outcome gives; two calls with
   the same request have the same command string. *)
C19_CallsShareNothing ==
  /\ \A c \in Calls :
       /\ (Execd(c) /\ c.req.hasArgs) =>
            /\ c.cmdline = <<"git", SP>> \o Compose(c.req.name, c.req.args)
            /\ c.pc = "responded" => c.response = ResponseOf(c)
  /\ (Execd(Running) /\ Execd(parked) /\ req = parked.req) =>
       /\ cmdline = parked.cmdline
       /\ cwd = parked.cwd

C19_Witness ==
  /\ pc = "responded"
  /\ req.name = "git_status"
  /\ req = parked.req
  /\ proc.stdout = <<"out">>
  /\ response.text = <<"out">>
  /\ parked.pc = "exited"
  /\ parked.proc.code = 1
  /\ cmdline = parked.cmdline

(***************************************************************************)
(* The registry: what ListTools returns, name and required of each         *)
(* descriptor, in the order listed.                                        *)
(***************************************************************************)
Descriptor(name, required) == [name |-> name, required |-> required]

(* tools, were git_tag listed twice and git_reset not at all *)
toolsTagTwice ==
  <<Descriptor("git_init", {}), Descriptor("git_clone", {"url"}),
    Descriptor("git_status", {}), Descriptor("git_add", {}),
    Descriptor("git_commit", {"message"}), Descriptor("git_push", {}),
    Descriptor("git_pull", {}), Descriptor("git_branch", {}),
    Descriptor("git_checkout", {"branch"}), Descriptor("git_merge", {"branch"}),
    Descriptor("git_log", {}), Descriptor("git_diff", {}),
    Descriptor("git_stash", {}), Descriptor("git_remote", {}),
    Descriptor("git_tag", {}), Descriptor("git_tag", {})>>

tools ==
  <<Descriptor("git_init", {}), Descriptor("git_clone", {"url"}),
    Descriptor("git_status", {}), Descriptor("git_add", {}),
    Descriptor("git_commit", {"message"}), Descriptor("git_push", {}),
    Descriptor("git_pull", {}), Descriptor("git_branch", {}),
    Descriptor("git_checkout", {"branch"}), Descriptor("git_merge", {"branch"}),
    Descriptor("git_log", {}), Descriptor("git_diff", {}),
    Descriptor("git_stash", {}), Descriptor("git_remote", {}),
    Descriptor("git_tag", {}), Descriptor("git_reset", {})>>

Listed(name) == \E i \in 1..Len(tools) : tools[i].name = name

(* some case of the switch takes the request *)
SomeCase ==
  \/ handleInit
  \/ handleClone
  \/ handleStatus
  \/ handleAdd
  \/ handleCommit
  \/ handlePush
  \/ handlePull
  \/ handleBranch
  \/ handleCheckout
  \/ handleMerge
  \/ handleLog
  \/ handleDiff
  \/ handleStash
  \/ handleRemote
  \/ handleTag
  \/ handleReset

(* C21: the registry lists sixteen descriptors, no name twice; a request
   received is taken by a case of the switch exactly when its name is listed,
   and by the default case exactly when it is not; and the registry requires
   url of git_clone, message of git_commit, branch of git_checkout and of
   git_merge, and nothing else. *)
C21_RegistryMatchesSwitch ==
  /\ Len(tools) = 16
  /\ Cardinality({tools[i].name : i \in 1..Len(tools)}) = Len(tools)
  /\ \A i \in 1..Len(tools) :
       tools[i].required =
         CASE tools[i].name = "git_clone" -> {"url"}
           [] tools[i].name = "git_commit" -> {"message"}
           [] tools[i].name \in {"git_checkout", "git_merge"} -> {"branch"}
           [] OTHER -> {}
  /\ pc = "received" =>
       /\ Listed(req.name) <=> ENABLED SomeCase
       /\ Listed(req.name) <=> ~ENABLED unknownTool
  /\ (pc = "responded" /\ response.code = "MethodNotFound") => ~Listed(req.name)
  /\ Spawned => Listed(req.name)

C21_Witness ==
  /\ pc = "received"
  /\ req.name = "git_reset"
  /\ Listed(req.name)
  /\ ENABLED handleReset

C21_WitnessUnlisted ==
  /\ pc = "received"
  /\ ~Listed(req.name)
  /\ ENABLED unknownTool

====
